---- MODULE Spec2Model ----
(***************************************************************************)
(* A model of src/main.py: the bat-vs-rat analysis script.  main() loads   *)
(* dataset1.csv and dataset2.csv, cleans dataset 1, derives the            *)
(* rat_presence_duration feature, prints three descriptive summaries and   *)
(* runs one two-sample t-test.  A table is a sequence of rows, a row a     *)
(* record of cells; every function of the script is one action.            *)
(***************************************************************************)
EXTENDS Integers, Sequences, FiniteSets, TLC

VARIABLES files, pc, df1, df2, out, calls, figures, samples, p_value, exc

vars == <<files, pc, df1, df2, out, calls, figures, samples, p_value, exc>>

(***************************************************************************)
(* Bounds of the model.                                                    *)
(***************************************************************************)
MaxLandings == 3
MaxRows1 == 2
MaxRows2 == 2

(***************************************************************************)
(* Values.  A cell is NaN (missing) or Val(v); a local of main is Unset,   *)
(* None or a DataFrame; a path of the file system names no file, a file    *)
(* read_csv cannot read, or a CSV table.                                   *)
(***************************************************************************)
NaN == <<>>
Val(v) == <<v>>
NaT == <<>>

Unset == [kind |-> "Unset"]
None == [kind |-> "None"]
DataFrame(rows) == [kind |-> "DataFrame", rows |-> rows]
IsFrame(df) == df.kind = "DataFrame"

Missing == [kind |-> "missing"]
Unreadable == [kind |-> "unreadable"]
Csv(rows) == [kind |-> "csv", rows |-> rows]

Path1 == "dataset1.csv"
Path2 == "dataset2.csv"
Paths == {Path1, Path2}

(***************************************************************************)
(* Date cells: the text of a date, as its fields and its layout.           *)
(* "26/12/2017 20:57" is Date(26, 12, 2017, 20, 57, "/").                  *)
(***************************************************************************)
Date(d, m, y, H, M, sep) == [d |-> d, m |-> m, y |-> y, H |-> H, M |-> M, sep |-> sep]

IsLeap(y) == (y % 4 = 0 /\ y % 100 # 0) \/ y % 400 = 0

DaysInMonth(m, y) ==
    IF m = 2 THEN (IF IsLeap(y) THEN 29 ELSE 28)
    ELSE IF m \in {4, 6, 9, 11} THEN 30 ELSE 31

RECURSIVE DaysBeforeMonth(_, _)
DaysBeforeMonth(m, y) ==
    IF m <= 1 THEN 0 ELSE DaysBeforeMonth(m - 1, y) + DaysInMonth(m - 1, y)

\* days from 1970-01-01 to the first of January of year y (y >= 1970)
DaysBeforeYear(y) ==
    365 * (y - 1970) + ((y - 1969) \div 4) - ((y - 1901) \div 100) + ((y - 1601) \div 400)

\* format='%d/%m/%Y %H:%M': the layout and the range of every field
Parses(c) ==
    /\ c # NaN
    /\ c[1].sep = "/"
    /\ c[1].m \in 1..12
    /\ c[1].d \in 1..DaysInMonth(c[1].m, c[1].y)
    /\ c[1].H \in 0..23
    /\ c[1].M \in 0..59

\* the parsed timestamp, in seconds since 1970-01-01 00:00
Timestamp(t) ==
    (((DaysBeforeYear(t.y) + DaysBeforeMonth(t.m, t.y) + (t.d - 1)) * 24 + t.H) * 60 + t.M) * 60

\* pd.to_datetime(cell, format='%d/%m/%Y %H:%M', errors='coerce')
ToDatetime(c) == IF Parses(c) THEN Val(Timestamp(c[1])) ELSE NaT

(***************************************************************************)
(* The inputs: what the two CSV files may hold.                            *)
(***************************************************************************)
Early == Date(26, 12, 2017, 20, 57, "/")
Late == Date(1, 1, 2018, 0, 5, "/")
IsoLayout == Date(26, 12, 2017, 20, 57, "-")      \* "2017-12-26 20:57"
BadDay == Date(31, 2, 2018, 10, 0, "/")           \* "31/02/2018 10:00"
BadHour == Date(26, 12, 2017, 24, 10, "/")        \* "26/12/2017 24:10"

DateColumns == <<"start_time", "rat_period_start", "rat_period_end", "sunset_time">>

Row1(st, rs, re, su, h, k, t) ==
    [start_time |-> st, rat_period_start |-> rs, rat_period_end |-> re, sunset_time |-> su,
     habit |-> h, risk |-> k, bat_landing_to_food |-> t]

Row2(m, n) == [rat_minutes |-> m, bat_landing_number |-> n]

GoodRow(h, k, t) == Row1(Val(Early), Val(Early), Val(Late), Val(Early), h, k, t)

\* landings for the t-test: the dates good or one bad, the risk 0, 1 or missing,
\* the time to food present or missing
LandingRows ==
    {Row1(Val(Early), rs, Val(Late), Val(Early), Val("fast"), k, t) :
        rs \in {Val(Early), Val(IsoLayout)}, k \in {Val(0), Val(1), NaN}, t \in {Val(3), NaN}}

\* the habits of landings: present or missing, under three risk labels
HabitRows ==
    {GoodRow(h, k, Val(3)) : h \in {Val("fast"), Val("pick"), NaN}, k \in {Val(0), Val(1), Val(2)}}

\* the dates of a landing: every column good or bad, in every combination
\* (the rat period ends before it starts: LandingRows hold the other order)
DatedRows ==
    {Row1(st, rs, re, su, Val("fast"), Val(0), Val(3)) :
        st \in {Val(Early), NaN},
        rs \in {Val(Late), Val(IsoLayout)},
        re \in {Val(Early), Val(BadDay)},
        su \in {Val(Early), Val(BadHour)}}

\* 30-minute intervals
IntervalRows ==
    {Row2(m, n) : m \in {Val(-1), Val(0), Val(1), NaN}, n \in {Val(2), NaN}}

\* one table of each data set that the whole pipeline accepts
SomeLandings == <<GoodRow(Val("fast"), Val(0), Val(3)), GoodRow(NaN, Val(1), Val(3))>>
SomeIntervals == <<Row2(Val(1), Val(2))>>

FileSystem(f1, f2) == [p \in Paths |-> IF p = Path1 THEN f1 ELSE f2]

TablesUpTo(rows, n) == UNION {[1..k -> rows] : k \in 0..n}

\* pd.read_csv: the rows of the file, indexed 0, 1, 2, ...
ReadCsv(rows) == [i \in 1..Len(rows) |-> [idx |-> i - 1] @@ rows[i]]

(***************************************************************************)
(* Output: the lines the script prints, in order.                          *)
(***************************************************************************)
Line(msg, arg) == [msg |-> msg, arg |-> arg]
Count(seq, x) == Cardinality({i \in 1..Len(seq) : seq[i] = x})

(***************************************************************************)
(* load_data(filepath)                                                     *)
(***************************************************************************)
\* a slip: an empty frame, not None, for the file that is not found
LoadResultEmptyFrame(f) ==
    IF f.kind = "csv" THEN DataFrame(ReadCsv(f.rows)) ELSE DataFrame(<<>>)

\* what load_data returns when read_csv returns or raises FileNotFoundError
LoadResult(f) == IF f.kind = "csv" THEN DataFrame(ReadCsv(f.rows)) ELSE None

\* what load_data prints
LoadLine(path, f) ==
    IF f.kind = "csv" THEN Line("Successfully loaded", path)
    ELSE Line("Error: file not found", path)

\* only FileNotFoundError is caught: any other error of read_csv leaves load_data
LoadRaises(f) == f.kind = "unreadable"

(***************************************************************************)
(* clean_and_prepare_data(df1)                                             *)
(***************************************************************************)
\* Series.fillna('unknown') on one cell
FillNa(c, v) == IF c = NaN THEN Val(v) ELSE c

\* df1['habit'].fillna('unknown', inplace=True): an inplace fill of the object
\* that df1['habit'] returns.  Where that object is the frame's own column
\* (pandas before 3.0, copy-on-write off) the frame is filled; where it is a
\* copy (copy-on-write, pandas 3.0 on) the frame is left as it was.
FillHabit(rows, inplace_reaches_frame) ==
    IF inplace_reaches_frame
    THEN [i \in 1..Len(rows) |-> [rows[i] EXCEPT !.habit = FillNa(@, "unknown")]]
    ELSE rows

\* the loop over date_columns: every column is converted, errors become NaT
ConvertDates(rows) ==
    [i \in 1..Len(rows) |->
        [rows[i] EXCEPT !.start_time = ToDatetime(@),
                        !.rat_period_start = ToDatetime(@),
                        !.rat_period_end = ToDatetime(@),
                        !.sunset_time = ToDatetime(@)]]

\* a slip: sunset_time left out of the subset
HasFirstThreeDates(r) == \A k \in 1..(Len(DateColumns) - 1) : r[DateColumns[k]] # NaT

\* a row dropna(subset=date_columns) keeps: no date column is null
HasAllDates(r) == \A k \in 1..Len(DateColumns) : r[DateColumns[k]] # NaT

DropNa(rows) == SelectSeq(rows, HasAllDates)

\* a slip: the rows left are reported, not the rows removed
RemovedCountOfKept(before, after) == Len(after)

\* the number the function reports: original_rows - len(df1)
RemovedCount(before, after) == Len(before) - Len(after)

(***************************************************************************)
(* engineer_features(df)                                                   *)
(***************************************************************************)
\* a slip: start minus end
DurationReversed(r) ==
    IF r.rat_period_end = NaT \/ r.rat_period_start = NaT THEN NaN
    ELSE Val(r.rat_period_start[1] - r.rat_period_end[1])

\* (rat_period_end - rat_period_start).dt.total_seconds(); NaT gives NaN
Duration(r) ==
    IF r.rat_period_end = NaT \/ r.rat_period_start = NaT THEN NaN
    ELSE Val(r.rat_period_end[1] - r.rat_period_start[1])

AddDuration(rows) ==
    [i \in 1..Len(rows) |-> [rat_presence_duration |-> Duration(rows[i])] @@ rows[i]]

(***************************************************************************)
(* Grouping by risk (groupby drops the rows whose key is NaN).             *)
(***************************************************************************)
RiskKeys(rows) == {rows[i].risk[1] : i \in {j \in 1..Len(rows) : rows[j].risk # NaN}}

\* the non-missing values of column col in the rows of risk group k
RECURSIVE GroupValues(_, _, _)
GroupValues(rows, k, col) ==
    IF rows = <<>> THEN <<>>
    ELSE LET r == Head(rows)
             rest == GroupValues(Tail(rows), k, col)
         IN IF r.risk = Val(k) /\ r[col] # NaN THEN <<r[col][1]>> \o rest ELSE rest

\* analyze_vigilance: the values mean, median and std are taken over, per group
VigilanceSummary(rows) ==
    [k \in RiskKeys(rows) |-> GroupValues(rows, k, "bat_landing_to_food")]

\* analyze_habit_by_risk: value_counts per risk group, unstacked; a group
\* none of whose rows has a habit has no count and so no column
HabitColumns(rows) == {k \in RiskKeys(rows) : GroupValues(rows, k, "habit") # <<>>}
HabitNames(rows) ==
    UNION {{GroupValues(rows, k, "habit")[i] : i \in 1..Len(GroupValues(rows, k, "habit"))}
           : k \in RiskKeys(rows)}
HabitCount(rows, k, h) == Count(GroupValues(rows, k, "habit"), h)

\* sort_values(by=[0, 1]) needs the columns 0 and 1: it raises KeyError otherwise
SortRaises(rows) == ~({0, 1} \subseteq HabitColumns(rows))

\* descending by the count under risk 0, then by the count under risk 1
Before(rows, g, h) ==
    \/ HabitCount(rows, 0, g) > HabitCount(rows, 0, h)
    \/ /\ HabitCount(rows, 0, g) = HabitCount(rows, 0, h)
       /\ HabitCount(rows, 1, g) >= HabitCount(rows, 1, h)

HabitSummary(rows) ==
    LET H == HabitNames(rows)
        order == CHOOSE s \in [1..Cardinality(H) -> H] :
                    /\ \A i, j \in DOMAIN s : i # j => s[i] # s[j]
                    /\ \A i, j \in DOMAIN s : i < j => Before(rows, s[i], s[j])
    IN [i \in DOMAIN order |->
          [habit |-> order[i],
           counts |-> [k \in HabitColumns(rows) |-> HabitCount(rows, k, order[i])]]]

(***************************************************************************)
(* analyze_avoidance(df)                                                   *)
(***************************************************************************)
\* lambda x: 'Rat Present' if x > 0 else 'No Rat'   (nan > 0 is False)
Greater(x, n) == x # NaN /\ x[1] > n

\* a slip: x >= 0
RatPresenceNonNegative(x) == IF x # NaN /\ x[1] >= 0 THEN "Rat Present" ELSE "No Rat"

RatPresence(x) == IF Greater(x, 0) THEN "Rat Present" ELSE "No Rat"

AddRatPresence(rows) ==
    [i \in 1..Len(rows) |-> [rat_presence |-> RatPresence(rows[i].rat_minutes)] @@ rows[i]]

RECURSIVE LandingsWhere(_, _)
LandingsWhere(rows, label) ==
    IF rows = <<>> THEN <<>>
    ELSE LET r == Head(rows)
             rest == LandingsWhere(Tail(rows), label)
         IN IF r.rat_presence = label /\ r.bat_landing_number # NaN
            THEN <<r.bat_landing_number[1]>> \o rest ELSE rest

AvoidanceSummary(rows) ==
    [l \in {rows[i].rat_presence : i \in 1..Len(rows)} |-> LandingsWhere(rows, l)]

(***************************************************************************)
(* run_hypothesis_test(df)                                                 *)
(***************************************************************************)
Alpha == 5                        \* 0.05, in hundredths
PValues == {Val(0), Val(4), Val(5), Val(6), Val(100), NaN}

\* a slip: every row that is not of the other group
RECURSIVE RiskGroupNotOther(_, _)
RiskGroupNotOther(rows, k) ==
    IF rows = <<>> THEN <<>>
    ELSE LET r == Head(rows)
             rest == RiskGroupNotOther(Tail(rows), k)
         IN IF r.risk # Val(1 - k)
            THEN <<[idx |-> r.idx, value |-> r.bat_landing_to_food]>> \o rest
            ELSE rest

\* df[df['risk'] == k]['bat_landing_to_food']: the Series, index and value
RECURSIVE RiskGroup(_, _)
RiskGroup(rows, k) ==
    IF rows = <<>> THEN <<>>
    ELSE LET r == Head(rows)
             rest == RiskGroup(Tail(rows), k)
         IN IF r.risk = Val(k)
            THEN <<[idx |-> r.idx, value |-> r.bat_landing_to_food]>> \o rest
            ELSE rest

\* nan_policy='omit': the observations the test is computed from
IsObserved(e) == e.value # NaN
Omit(series) == SelectSeq(series, IsObserved)

\* ttest_ind is scipy's: any p-value, and nan whenever a sample is empty
TTestPValues(a, b) == IF Omit(a) = <<>> \/ Omit(b) = <<>> THEN {NaN} ELSE PValues

\* p_value < 0.05   (nan < 0.05 is False)
Less(p, a) == p # NaN /\ p[1] < a

\* a slip: p_value <= 0.05
SignificantAtMost(p) == p # NaN /\ p[1] <= Alpha

Significant(p) == Less(p, Alpha)

Verdict(p) ==
    IF Significant(p) THEN Line("Conclusion: statistically significant, reject the null hypothesis", p)
    ELSE Line("Conclusion: not statistically significant", p)

(***************************************************************************)
(* main(): the state after construction and one action per call.  The two  *)
(* tables never meet in one operation, so the file systems vary the state  *)
(* of both files, then the landings of dataset 1, then the dates of        *)
(* habits of dataset 1, then its dates, then the intervals of dataset 2.   *)
(***************************************************************************)
Init ==
    /\ \/ \E f1 \in {Missing, Unreadable, Csv(SomeLandings)} :
            \E f2 \in {Missing, Unreadable, Csv(SomeIntervals)} : files = FileSystem(f1, f2)
       \/ \E t \in TablesUpTo(LandingRows, MaxLandings) : files = FileSystem(Csv(t), Csv(SomeIntervals))
       \/ \E t \in TablesUpTo(HabitRows, MaxRows1) : files = FileSystem(Csv(t), Csv(SomeIntervals))
       \/ \E t \in TablesUpTo(DatedRows, MaxRows1) : files = FileSystem(Csv(t), Csv(SomeIntervals))
       \/ \E t \in TablesUpTo(IntervalRows, MaxRows2) : files = FileSystem(Csv(SomeLandings), Csv(t))
    /\ pc = "load1"
    /\ df1 = Unset
    /\ df2 = Unset
    /\ out = <<>>
    /\ calls = <<>>
    /\ figures = 0
    /\ samples = <<>>
    /\ p_value = NaN
    /\ exc = "none"

Raise(e) == pc' = "raised" /\ exc' = e

\* df1 = load_data('dataset1.csv')
Load1 ==
    /\ pc = "load1"
    /\ calls' = Append(calls, "load_data(dataset1.csv)")
    /\ IF LoadRaises(files[Path1])
       THEN Raise("read_csv error") /\ UNCHANGED <<df1, out>>
       ELSE /\ df1' = LoadResult(files[Path1])
            /\ out' = Append(out, LoadLine(Path1, files[Path1]))
            /\ pc' = "load2"
            /\ UNCHANGED exc
    /\ UNCHANGED <<files, df2, figures, samples, p_value>>

\* df2 = load_data('dataset2.csv')
Load2 ==
    /\ pc = "load2"
    /\ calls' = Append(calls, "load_data(dataset2.csv)")
    /\ IF LoadRaises(files[Path2])
       THEN Raise("read_csv error") /\ UNCHANGED <<df2, out>>
       ELSE /\ df2' = LoadResult(files[Path2])
            /\ out' = Append(out, LoadLine(Path2, files[Path2]))
            /\ pc' = "if"
            /\ UNCHANGED exc
    /\ UNCHANGED <<files, df1, figures, samples, p_value>>

\* if df1 is not None and df2 is not None:
BothLoaded == df1 # None /\ df2 # None

Branch ==
    /\ pc = "if"
    /\ pc' = IF BothLoaded THEN "clean" ELSE "returned"
    /\ UNCHANGED <<files, df1, df2, out, calls, figures, samples, p_value, exc>>

\* df1 = clean_and_prepare_data(df1)
Clean ==
    /\ pc = "clean"
    /\ calls' = Append(calls, "clean_and_prepare_data")
    /\ \E reaches \in BOOLEAN :
         LET filled == FillHabit(df1.rows, reaches)
             converted == ConvertDates(filled)
             kept == DropNa(converted)
         IN /\ df1' = DataFrame(kept)
            /\ out' = out \o <<Line("--- Cleaning and Preparing dataset1 ---", NaN),
                               Line("rows with invalid dates removed",
                                    Val(RemovedCount(converted, kept)))>>
    /\ pc' = "engineer"
    /\ UNCHANGED <<files, df2, figures, samples, p_value, exc>>

\* df1 = engineer_features(df1)
Engineer ==
    /\ pc = "engineer"
    /\ calls' = Append(calls, "engineer_features")
    /\ df1' = DataFrame(AddDuration(df1.rows))
    /\ out' = out \o <<Line("--- Engineering New Features ---", NaN),
                       Line("New feature 'rat_presence_duration' created.", NaN)>>
    /\ pc' = "vigilance"
    /\ UNCHANGED <<files, df2, figures, samples, p_value, exc>>

\* analyze_vigilance(df1)
Vigilance ==
    /\ pc = "vigilance"
    /\ calls' = Append(calls, "analyze_vigilance")
    /\ out' = out \o <<Line("--- EDA 1: Analyzing Bat Vigilance vs. Risk ---", NaN),
                       Line("Statistical Summary of Time to Approach Food (seconds):",
                            VigilanceSummary(df1.rows))>>
    /\ figures' = figures + 1
    /\ pc' = "habit"
    /\ UNCHANGED <<files, df1, df2, samples, p_value, exc>>

\* analyze_habit_by_risk(df1)
Habit ==
    /\ pc = "habit"
    /\ calls' = Append(calls, "analyze_habit_by_risk")
    /\ IF SortRaises(df1.rows)
       THEN /\ out' = Append(out, Line("--- EDA 2: Analyzing Habit Frequencies by Risk Group ---", NaN))
            /\ Raise("KeyError")
       ELSE /\ out' = out \o <<Line("--- EDA 2: Analyzing Habit Frequencies by Risk Group ---", NaN),
                               Line("habit summary", HabitSummary(df1.rows))>>
            /\ pc' = "avoidance"
            /\ UNCHANGED exc
    /\ UNCHANGED <<files, df1, df2, figures, samples, p_value>>

\* analyze_avoidance(df2)
Avoidance ==
    /\ pc = "avoidance"
    /\ calls' = Append(calls, "analyze_avoidance")
    /\ df2' = DataFrame(AddRatPresence(df2.rows))
    /\ out' = out \o <<Line("--- EDA 3: Analyzing Colony-Wide Avoidance ---", NaN),
                       Line("Average Bat Landings per 30-min Interval:",
                            AvoidanceSummary(AddRatPresence(df2.rows)))>>
    /\ figures' = figures + 1
    /\ pc' = "ttest"
    /\ UNCHANGED <<files, df1, samples, p_value, exc>>

\* run_hypothesis_test(df1)
HypothesisTest ==
    /\ pc = "ttest"
    /\ calls' = Append(calls, "run_hypothesis_test")
    /\ LET risk_avoidance_group == RiskGroup(df1.rows, 0)
           risk_taking_group == RiskGroup(df1.rows, 1)
       IN /\ samples' = <<Omit(risk_avoidance_group), Omit(risk_taking_group)>>
          /\ \E p \in TTestPValues(risk_avoidance_group, risk_taking_group) :
                /\ p_value' = p
                /\ out' = out \o <<Line("--- Hypothesis Test: Validating Vigilance Findings ---", NaN),
                                   Line("T-statistic:", NaN),
                                   Line("P-value:", p),
                                   Verdict(p)>>
    /\ pc' = "complete"
    /\ UNCHANGED <<files, df1, df2, figures, exc>>

\* print("\n--- Analysis Complete ---")
Complete ==
    /\ pc = "complete"
    /\ out' = Append(out, Line("--- Analysis Complete ---", NaN))
    /\ pc' = "returned"
    /\ UNCHANGED <<files, df1, df2, calls, figures, samples, p_value, exc>>

Next ==
    \/ Load1
    \/ Load2
    \/ Branch
    \/ Clean
    \/ Engineer
    \/ Vigilance
    \/ Habit
    \/ Avoidance
    \/ HypothesisTest
    \/ Complete

Spec == Init /\ [][Next]_vars

(***************************************************************************)
(* Vocabulary of the claims.                                               *)
(***************************************************************************)
Called(fn) == \E i \in 1..Len(calls) : calls[i] = fn
Printed(msg) == \E i \in 1..Len(out) : out[i].msg = msg
CountMsg(msg) == Cardinality({i \in 1..Len(out) : out[i].msg = msg})
PrintedWith(msg, arg) == \E i \in 1..Len(out) : out[i].msg = msg /\ out[i].arg = arg
Terminated == pc \in {"returned", "raised"}

Steps ==
    <<"clean_and_prepare_data", "engineer_features", "analyze_vigilance",
      "analyze_habit_by_risk", "analyze_avoidance", "run_hypothesis_test">>
Pipeline == <<"load_data(dataset1.csv)", "load_data(dataset2.csv)">> \o Steps

\* the rows of the two files as read_csv indexes them
Input1 == ReadCsv(files[Path1].rows)
Input2 == ReadCsv(files[Path2].rows)
Indexes(rows) == {rows[i].idx : i \in 1..Len(rows)}
RowAt(rows, x) == rows[CHOOSE i \in 1..Len(rows) : rows[i].idx = x]

\* every date of an input row is a date in the layout %d/%m/%Y %H:%M
AllDatesParse(r) ==
    Parses(r.start_time) /\ Parses(r.rat_period_start)
        /\ Parses(r.rat_period_end) /\ Parses(r.sunset_time)

\* C1: load_data of a path that names no file prints the error naming the
\* path and returns None without raising; load_data of a file that is read
\* prints the success line and returns the table of the file, never None.
C1_LoadTolerant ==
    /\ (Len(calls) >= 1 /\ files[Path1] = Missing) =>
          df1 = None /\ PrintedWith("Error: file not found", Path1)
    /\ (Len(calls) >= 2 /\ files[Path2] = Missing) =>
          df2 = None /\ PrintedWith("Error: file not found", Path2)
    /\ (pc = "load2" /\ files[Path1].kind = "csv") =>
          df1 = DataFrame(Input1) /\ PrintedWith("Successfully loaded", Path1)
    /\ (pc = "if" /\ files[Path2].kind = "csv") =>
          df2 = DataFrame(Input2) /\ PrintedWith("Successfully loaded", Path2)
    /\ (df1 = None => files[Path1] = Missing)
    /\ (df2 = None => files[Path2] = Missing)

C1_Witness == pc = "if" /\ df1 = None /\ IsFrame(df2) /\ Len(df2.rows) > 0

\* C2: once a load has returned None, no step of the pipeline is executed,
\* "--- Analysis Complete ---" is not printed and main does not raise.
C2_NoneSkipsAndReturns ==
    (df1 = None \/ df2 = None) =>
        /\ \A k \in 1..Len(Steps) : ~Called(Steps[k])
        /\ ~Printed("--- Analysis Complete ---")
        /\ pc # "raised"

\* C3: after clean_and_prepare_data the rows of dataset 1 are exactly the
\* input rows all four of whose dates parse under %d/%m/%Y %H:%M, and each
\* holds the four parsed timestamps.
C3_KeptIffDatesParse ==
    Called("clean_and_prepare_data") =>
        /\ \A i \in 1..Len(Input1) :
              (Input1[i].idx \in Indexes(df1.rows)) <=> AllDatesParse(Input1[i])
        /\ \A j \in 1..Len(df1.rows) :
              LET r == df1.rows[j]
                  in == RowAt(Input1, r.idx)
              IN \A k \in 1..Len(DateColumns) :
                    /\ r[DateColumns[k]] # NaT
                    /\ r[DateColumns[k]] = Val(Timestamp(in[DateColumns[k]][1]))

C3_Witness ==
    /\ pc = "engineer"
    /\ Len(df1.rows) = 1
    /\ \E i \in 1..Len(Input1) : Input1[i].start_time # NaN /\ ~Parses(Input1[i].sunset_time)

\* C4: after clean_and_prepare_data no row of dataset 1 has a missing habit:
\* a habit missing in the input is 'unknown', a habit present is unchanged.
C4_HabitFilled ==
    Called("clean_and_prepare_data") =>
        \A j \in 1..Len(df1.rows) :
            LET r == df1.rows[j]
                in == RowAt(Input1, r.idx)
            IN /\ r.habit # NaN
               /\ in.habit = NaN => r.habit = Val("unknown")
               /\ in.habit # NaN => r.habit = in.habit

\* C5: engineer_features gives every row the seconds from rat_period_start
\* to rat_period_end (negative when the end is the earlier), never a null
\* in the pipeline, keeps every row and changes no other column.
C5_DurationInSeconds ==
    [][pc = "engineer" =>
        /\ Len(df1'.rows) = Len(df1.rows)
        /\ \A j \in 1..Len(df1.rows) :
              LET old == df1.rows[j]
                  new == df1'.rows[j]
                  in == RowAt(Input1, old.idx)
              IN /\ \A c \in DOMAIN old : new[c] = old[c]
                 /\ DOMAIN new = DOMAIN old \cup {"rat_presence_duration"}
                 /\ new.rat_presence_duration # NaN
                 /\ new.rat_presence_duration[1]
                        = old.rat_period_end[1] - old.rat_period_start[1]
                 /\ new.rat_presence_duration[1]
                        = Timestamp(in.rat_period_end[1]) - Timestamp(in.rat_period_start[1])
                 /\ (old.rat_period_end[1] < old.rat_period_start[1]
                        <=> new.rat_presence_duration[1] < 0)]_vars

C5_Witness ==
    /\ pc = "vigilance"
    /\ Len(df1.rows) = 2
    /\ \A j \in 1..Len(df1.rows) : df1.rows[j].rat_presence_duration[1] < 0

\* C6: a call of run_hypothesis_test prints exactly one verdict: the
\* significant one if and only if the p-value is a number below 0.05, the
\* not-significant one for every other p-value, 0.05 and nan included.
C6_VerdictAtAlpha ==
    Called("run_hypothesis_test") =>
        LET sig == CountMsg("Conclusion: statistically significant, reject the null hypothesis")
            not == CountMsg("Conclusion: not statistically significant")
        IN /\ sig + not = 1
           /\ sig = 1 <=> (p_value # NaN /\ p_value[1] < Alpha)
           /\ PrintedWith("P-value:", p_value)

C6_Witness ==
    /\ Called("run_hypothesis_test")
    /\ p_value = Val(Alpha)
    /\ Printed("Conclusion: not statistically significant")

\* C7: the calls of main are always a prefix of the fixed order; a run in
\* which both files loaded ends with every step executed exactly once, and
\* "--- Analysis Complete ---" is printed only after the t-test.
C7_LinearPipeline ==
    /\ Len(calls) <= Len(Pipeline)
    /\ \A i \in 1..Len(calls) : calls[i] = Pipeline[i]
    /\ Printed("--- Analysis Complete ---") => calls = Pipeline /\ pc = "returned"
    /\ (Terminated /\ IsFrame(df1) /\ IsFrame(df2)) =>
          /\ calls = Pipeline
          /\ CountMsg("--- Analysis Complete ---") = 1

\* C8: the two samples of the t-test are the times to food of the input
\* rows that survived cleaning, have risk 0 (first sample) or 1 (second)
\* and a time to food; no other row is in a sample, no row in both.
SampleOf(k) ==
    {x \in Indexes(Input1) :
        LET in == RowAt(Input1, x)
        IN AllDatesParse(in) /\ in.risk = Val(k) /\ in.bat_landing_to_food # NaN}

C8_TwoSamples ==
    Called("run_hypothesis_test") =>
        /\ Len(samples) = 2
        /\ \A k \in {0, 1} :
              LET s == samples[k + 1]
              IN /\ Indexes(s) = SampleOf(k)
                 /\ Len(s) = Cardinality(SampleOf(k))
                 /\ \A i \in 1..Len(s) :
                       Val(s[i].value[1]) = RowAt(Input1, s[i].idx).bat_landing_to_food
        /\ Indexes(samples[1]) \cap Indexes(samples[2]) = {}

C8_Witness ==
    /\ Called("run_hypothesis_test")
    /\ Len(samples[1]) + Len(samples[2]) = 1
    /\ \E i \in 1..Len(Input1) : Input1[i].risk = NaN /\ Input1[i].bat_landing_to_food # NaN
                                    /\ AllDatesParse(Input1[i])
    /\ \E i \in 1..Len(Input1) : Input1[i].bat_landing_to_food = NaN

\* C9: the reported number of removed rows is the input row count minus the
\* output row count, is the number of input rows with a date that does not
\* parse, is never negative, and is 0 exactly when no row is dropped.
ReportedRemoved ==
    out[CHOOSE i \in 1..Len(out) : out[i].msg = "rows with invalid dates removed"].arg[1]

C9_RemovedCount ==
    Called("clean_and_prepare_data") =>
        /\ CountMsg("rows with invalid dates removed") = 1
        /\ ReportedRemoved = Len(Input1) - Len(df1.rows)
        /\ ReportedRemoved = Cardinality({i \in 1..Len(Input1) : ~AllDatesParse(Input1[i])})
        /\ ReportedRemoved >= 0
        /\ ReportedRemoved = 0 <=> Indexes(df1.rows) = Indexes(Input1)

C9_Witness ==
    /\ pc = "engineer"
    /\ Len(Input1) = 2
    /\ ReportedRemoved = 1

\* C10: analyze_avoidance labels every row of dataset 2 'Rat Present' if
\* its rat_minutes is a number above 0 and 'No Rat' otherwise, drops no row
\* and changes no other cell; before it dataset 2 is the table as loaded.
C10_RatPresenceLabels ==
    /\ (IsFrame(df2) /\ ~Called("analyze_avoidance")) => df2 = DataFrame(Input2)
    /\ Called("analyze_avoidance") =>
          /\ Len(df2.rows) = Len(Input2)
          /\ \A i \in 1..Len(Input2) :
                LET r == df2.rows[i]
                    m == Input2[i].rat_minutes
                IN /\ r.rat_presence \in {"Rat Present", "No Rat"}
                   /\ r.rat_presence = "Rat Present" <=> (m # NaN /\ m[1] > 0)
                   /\ \A c \in DOMAIN Input2[i] : r[c] = Input2[i][c]

C10_Witness ==
    /\ Called("analyze_avoidance")
    /\ \E i \in 1..Len(df2.rows) :
          df2.rows[i].rat_minutes = Val(0) /\ df2.rows[i].rat_presence = "No Rat"
    /\ \E i \in 1..Len(df2.rows) :
          df2.rows[i].rat_minutes = NaN /\ df2.rows[i].rat_presence = "No Rat"

====
